---- MODULE Spec2Model ----
(***************************************************************************)
(* FoodScan ingredient service: the term resolution and enrichment         *)
(* pipeline (controllers/ingredientController.js, models/ingredients.js).  *)
(*                                                                         *)
(* A JavaScript string is a sequence of one-character strings, so that     *)
(* lowercasing, bracket stripping, trimming, splitting and joining are     *)
(* computed character by character as the code computes them.              *)
(* An action is one synchronous run of a handler: from the arrival of the  *)
(* request, or the completion of the operation it awaits, to its next      *)
(* await or its response.  Node runs such a segment without interleaving;  *)
(* the store and the Knowledge Model act at the completion of the await.   *)
(***************************************************************************)
EXTENDS Integers, Sequences, FiniteSets, TLC

VARIABLES
    store,   \* the ingredients collection, in insertion order
    clock,   \* the wall clock that stamps updatedAt
    inbox,   \* inbox[r]: the request that arrived and waits for its handler
    req,     \* req[r]: the handler's locals, its response and its history
    call     \* a direct call of the normalizer or of findByTerms, and its result

vars == <<store, clock, inbox, req, call>>

(***************************************************************************)
(* Bounds of the model.                                                    *)
(***************************************************************************)
\* comma-separated tokens in a raw "terms" string
MaxTokens == 2
\* items in the "ingredients" array of a Knowledge Model answer
MaxItems == 2
\* ticks of the wall clock that stamps updatedAt
MaxClock == 1
\* characters of a raw string handed to the normalizer directly
MaxChars == 4
\* records of a store, and elements of an array, handed to findByTerms directly
MaxRecords == 2
MaxTerms == 2

\* the two HTTP requests that may be in flight together
Requests == {1, 2}

(***************************************************************************)
(* Strings.                                                                *)
(***************************************************************************)
UpperCase == <<"A", "B", "C", "G", "W">>
LowerCase == <<"a", "b", "c", "g", "w">>

\* String.prototype.toLowerCase, one character
ToLowerChar(c) ==
    IF \E i \in 1..Len(UpperCase) : UpperCase[i] = c
    THEN LowerCase[CHOOSE i \in 1..Len(UpperCase) : UpperCase[i] = c]
    ELSE c

ToLowerCase(s) == [i \in 1..Len(s) |-> ToLowerChar(s[i])]

\* the white space String.prototype.trim removes
IsSpace(c) == c \in {" ", "\t"}

\* the character class of the regular expression /[\(\)\[\]\{\}]/g
IsBracket(c) == c \in {"(", ")", "[", "]", "{", "}"}

\* .replace(/[\(\)\[\]\{\}]/g, "")
StripBrackets(s) == SelectSeq(s, LAMBDA c : ~IsBracket(c))

RECURSIVE TrimLeft(_)
TrimLeft(s) ==
    IF s # <<>> /\ IsSpace(Head(s)) THEN TrimLeft(Tail(s)) ELSE s

RECURSIVE TrimRight(_)
TrimRight(s) ==
    IF s # <<>> /\ IsSpace(s[Len(s)])
    THEN TrimRight(SubSeq(s, 1, Len(s) - 1))
    ELSE s

\* String.prototype.trim
Trim(s) == TrimLeft(TrimRight(s))

\* String.prototype.split(","): "" gives [""], "a," gives ["a", ""]
RECURSIVE SplitComma(_)
SplitComma(s) ==
    IF \E i \in 1..Len(s) : s[i] = ","
    THEN LET i == CHOOSE j \in 1..Len(s) :
                      s[j] = "," /\ \A k \in 1..(j - 1) : s[k] # ","
         IN  <<SubSeq(s, 1, i - 1)>> \o SplitComma(SubSeq(s, i + 1, Len(s)))
    ELSE <<s>>

\* Array.prototype.join(",")
RECURSIVE JoinComma(_)
JoinComma(ts) ==
    IF ts = <<>> THEN <<>>
    ELSE IF Len(ts) = 1 THEN ts[1]
    ELSE ts[1] \o <<",">> \o JoinComma(Tail(ts))

MapSeq(f(_), s) == [i \in 1..Len(s) |-> f(s[i])]

Range(s) == {s[i] : i \in 1..Len(s)}

\* mutant of NormalizeToken: the token is trimmed before its brackets are
\* stripped
NormalizeTokenTrimFirst(tok) == StripBrackets(Trim(ToLowerCase(tok)))

\* the token mapping of the normalizer: lowercase, strip brackets, trim
NormalizeToken(tok) == Trim(StripBrackets(ToLowerCase(tok)))

\* termsString.split(",").map(...).filter((term) => term.length > 0)
NormalizeTerms(s) ==
    SelectSeq(MapSeq(NormalizeToken, SplitComma(s)), LAMBDA t : Len(t) > 0)

\* new Set(array) iterated: the distinct elements in order of first occurrence
RECURSIVE Distinct(_)
Distinct(s) ==
    IF s = <<>> THEN <<>>
    ELSE LET d == Distinct(SubSeq(s, 1, Len(s) - 1))
             x == s[Len(s)]
         IN  IF x \in Range(d) THEN d ELSE Append(d, x)

(***************************************************************************)
(* JavaScript values.  A value that may be missing or of the wrong type is *)
(* a record: kind says what it is, s holds its characters when a string.   *)
(***************************************************************************)
JsAbsent == [kind |-> "absent", s |-> <<>>]
JsNumber == [kind |-> "number", s |-> <<>>]
JsArray == [kind |-> "array", s |-> <<>>]
JsString(s) == [kind |-> "string", s |-> s]

\* !value, for a value that is undefined, a string, a number (non-zero) or an array
Falsy(v) == v.kind = "absent" \/ (v.kind = "string" /\ v.s = <<>>)

(***************************************************************************)
(* The Ingredient schema.  A stored record keeps the fields the pipeline   *)
(* reads or the schema constrains; health_rating is the empty set when     *)
(* absent.  createdAt is written once and never read, so it is left out.   *)
(***************************************************************************)
SourceEnum ==
    {"LLM", "Curated", "User Contribution", "Database Import",
     "Scientific Literature"}

HealthRatingMin == 1
HealthRatingMax == 5

\* the schema's setters: trim and lowercase on name and on every alias, trim on
\* display_name; source defaults to "LLM"
CastDoc(d) ==
    [name |-> IF d.name.kind = "string"
              THEN JsString(Trim(ToLowerCase(d.name.s))) ELSE d.name,
     display_name |-> IF d.display_name.kind = "string"
                      THEN JsString(Trim(d.display_name.s)) ELSE d.display_name,
     aliases |-> MapSeq(LAMBDA a : Trim(ToLowerCase(a)), d.aliases),
     health_rating |-> d.health_rating,
     source |-> IF d.source = "" THEN "LLM" ELSE d.source]

\* the schema's validators on a cast document: required name and display_name
\* (an empty string does not satisfy required), min and max of health_rating,
\* the enum of source
\* mutant of RatingInRange: min and max are not enforced
RatingUnchecked(d) == d.health_rating \subseteq Int

RatingInRange(d) ==
    \A h \in d.health_rating : HealthRatingMin <= h /\ h <= HealthRatingMax

\* mutant of ValidDoc: only the name is validated
ValidDocNameOnly(d) == d.name.kind = "string" /\ d.name.s # <<>>

ValidDoc(d) ==
    /\ d.name.kind = "string" /\ d.name.s # <<>>
    /\ d.display_name.kind = "string" /\ d.display_name.s # <<>>
    /\ RatingInRange(d)
    /\ d.source \in SourceEnum

\* the document as stored, stamped by timestamps: true
StoredDoc(d, now) ==
    [name |-> d.name.s,
     display_name |-> d.display_name.s,
     aliases |-> d.aliases,
     health_rating |-> d.health_rating,
     source |-> d.source,
     updatedAt |-> now]

NameExists(st, n) == \E i \in 1..Len(st) : st[i].name = n

\* mutant of FindByTerms: the query matches on name only
FindByTermsNameOnly(st, terms) ==
    LET validTerms == SelectSeq(terms, LAMBDA t : Len(t) > 0)
    IN  IF validTerms = <<>> THEN <<>>
        ELSE SelectSeq(st, LAMBDA rec : rec.name \in Range(validTerms))

\* Ingredient.findByTerms: the records whose name or any alias is one of the
\* terms, in the collection's order; [] without a query when no term is valid
FindByTerms(st, terms) ==
    LET validTerms == SelectSeq(terms, LAMBDA t : Len(t) > 0)
    IN  IF validTerms = <<>> THEN <<>>
        ELSE SelectSeq(st, LAMBDA rec :
                 \/ rec.name \in Range(validTerms)
                 \/ \E i \in 1..Len(rec.aliases) :
                        rec.aliases[i] \in Range(validTerms))

\* Ingredient.findByTerms on any argument: termsArray is undefined, a string or
\* an array whose items are JavaScript values; queried says whether find() ran
FindByTermsAny(st, termsArray) ==
    IF termsArray.kind # "array" \/ Len(termsArray.items) = 0
    THEN [queried |-> FALSE, docs |-> <<>>]
    ELSE LET validTerms == SelectSeq(termsArray.items,
                               LAMBDA t : t.kind = "string" /\ Len(t.s) > 0)
         IN  IF validTerms = <<>>
             THEN [queried |-> FALSE, docs |-> <<>>]
             ELSE [queried |-> TRUE,
                   docs |-> FindByTerms(st, MapSeq(LAMBDA t : t.s, validTerms))]

\* .select("name aliases").lean()
SelectNameAliases(recs) ==
    MapSeq(LAMBDA rec : [name |-> rec.name, aliases |-> rec.aliases], recs)

\* mutant of UpsertIfAbsent: the update resolves without reaching the store
UpsertLost(st, d, now) == st

\* mutant of UpsertIfAbsent: a plain insert into a collection without the
\* unique index
UpsertBlind(st, d, now) == Append(st, StoredDoc(d, now))

\* findOneAndUpdate({name}, {$setOnInsert: data}, {upsert: true}) on a schema
\* with timestamps: true.  Mongoose adds $set: {updatedAt: now} to every update,
\* so a matched record keeps its fields but is stamped again; without a match
\* the document is inserted.
UpsertIfAbsent(st, d, now) ==
    IF NameExists(st, d.name.s)
    THEN LET i == CHOOSE j \in 1..Len(st) :
                      st[j].name = d.name.s
                      /\ \A k \in 1..(j - 1) : st[k].name # d.name.s
         IN  [st EXCEPT ![i].updatedAt = now]
    ELSE Append(st, StoredDoc(d, now))

(***************************************************************************)
(* The Knowledge Model's answer.  A text is the JSON document it holds and *)
(* whether it is wrapped in a ``` fence; a document that is no JSON is     *)
(* "garbage".  An item of the ingredients array is null, a scalar or an    *)
(* object.                                                                 *)
(***************************************************************************)
NoDoc == [t |-> "none", ingredients |-> "absent", items |-> <<>>]
NoText == [fenced |-> FALSE, doc |-> NoDoc]

GarbageDoc == [t |-> "garbage", ingredients |-> "absent", items |-> <<>>]
NullDoc == [t |-> "null", ingredients |-> "absent", items |-> <<>>]
ScalarDoc == [t |-> "scalar", ingredients |-> "absent", items |-> <<>>]
EmptyObjectDoc == [t |-> "object", ingredients |-> "absent", items |-> <<>>]
ScalarIngredientsDoc == [t |-> "object", ingredients |-> "scalar", items |-> <<>>]
ArrayDoc(items) == [t |-> "object", ingredients |-> "array", items |-> items]

NullItem ==
    [kind |-> "null", ingredient_name |-> JsAbsent, aliases |-> <<>>,
     health_rating |-> {}]
ObjectItem(n, al, hr) ==
    [kind |-> "object", ingredient_name |-> n, aliases |-> al,
     health_rating |-> hr]

\* let llmData = null, and the three values it is assigned
LlmNull ==
    [t |-> "null", error |-> "", details |-> "", raw_response |-> NoText,
     attempted_parse_string |-> NoText, value |-> NoDoc]
LlmValue(doc) ==
    IF doc.t = "null" THEN LlmNull
    ELSE [t |-> "value", error |-> "", details |-> "", raw_response |-> NoText,
          attempted_parse_string |-> NoText, value |-> doc]
LlmParseError(rawText, jsonString) ==
    [t |-> "error", error |-> "Failed to parse LLM response.", details |-> "",
     raw_response |-> rawText, attempted_parse_string |-> jsonString,
     value |-> NoDoc]
LlmCallError(cause) ==
    [t |-> "error", error |-> "Failed to get analysis from LLM.",
     details |-> cause, raw_response |-> NoText,
     attempted_parse_string |-> NoText, value |-> NoDoc]

\* the content of the first fenced block when there is one, else the trimmed text
ExtractJson(rawText) == [rawText EXCEPT !.fenced = FALSE]

\* JSON.parse succeeds on a string that is a JSON document and nothing else
Parses(jsonString) == ~jsonString.fenced /\ jsonString.doc.t # "garbage"

\* the mapping of an item to newIngredientData
NewIngredientData(item) ==
    [name |-> JsString(Trim(ToLowerCase(item.ingredient_name.s))),
     display_name |-> item.ingredient_name,
     aliases |-> item.aliases,
     health_rating |-> item.health_rating,
     source |-> "LLM"]

(***************************************************************************)
(* The persist loop, from item i to its next await.  An item without a     *)
(* usable name is skipped and an item whose name is no string throws into  *)
(* the item's own catch; both go on with the next item.  A null item       *)
(* throws in the try and again in the catch block, which reads             *)
(* item.ingredient_name for its log line, so the error leaves the loop.    *)
(* Result: stop is "await" (item idx is being upserted), "end" or          *)
(* "escape"; log has one entry per item taken up.                          *)
(***************************************************************************)
RECURSIVE RunItems(_, _, _)
RunItems(items, i, log) ==
    IF i > Len(items) THEN [stop |-> "end", idx |-> i, log |-> log]
    ELSE LET item == items[i] IN
         IF item.kind = "null"
         THEN [stop |-> "escape", idx |-> i, log |-> Append(log, "escaped")]
         ELSE IF item.kind = "scalar" \/ item.ingredient_name.kind = "absent"
         THEN RunItems(items, i + 1, Append(log, "skipped"))
         ELSE IF item.ingredient_name.kind # "string"
         THEN RunItems(items, i + 1, Append(log, "TypeError"))
         ELSE IF Trim(ToLowerCase(item.ingredient_name.s)) = <<>>
         THEN RunItems(items, i + 1, Append(log, "skipped"))
         ELSE [stop |-> "await", idx |-> i, log |-> log]

(***************************************************************************)
(* Requests.  inbox[r] is the request as it arrived; req[r] holds the      *)
(* handler's locals, the response once sent, and the history of the        *)
(* request: the store reads, store writes and Knowledge Model calls it     *)
(* issued, the terms its prompt carried, what the hydrate read returned,   *)
(* whether the Knowledge Model's call failed or answered, the outcome of   *)
(* each item of the persist loop, and whether a store read failed.         *)
(***************************************************************************)
NoBody ==
    [name |-> JsAbsent, display_name |-> JsAbsent, aliases |-> <<>>,
     health_rating |-> {}, source |-> ""]

NoMessage ==
    [kind |-> "none", terms |-> JsAbsent, productType |-> JsAbsent,
     body |-> NoBody]

NoResponse ==
    [status |-> 0, success |-> FALSE, message |-> "", data |-> <<>>,
     llmAnalysis |-> LlmNull, llmQueryTerms |-> <<>>, errors |-> {}]

IdleReq ==
    [pc |-> "idle", kind |-> "none", body |-> NoBody,
     normalizedTerms |-> <<>>, termsInDB |-> <<>>, termsNotInDB |-> <<>>,
     dbData |-> <<>>, llmData |-> LlmNull, llmQueryTermsString |-> <<>>,
     rawText |-> NoText, idx |-> 0, response |-> NoResponse,
     reads |-> 0, writes |-> 0, llmCalls |-> 0, prompt |-> <<>>,
     hydrateRead |-> <<>>, llmOutcome |-> "none", llmCause |-> "",
     itemLog |-> <<>>, readFailed |-> FALSE]

MsgTermsRequired ==
    "Term(s) are required as a non-empty, comma-separated string in the \"terms\" query parameter."
MsgSearchTermsRequired ==
    "Search term(s) are required as a non-empty, comma-separated string in the \"terms\" query parameter."
MsgProductType ==
    "A valid \"productType\" query parameter (\"cosmetic\" or \"food\") is required."
MsgNoValidTerm == "Please provide at least one valid search term."
MsgProcessFault == "Server error while processing ingredient list."
MsgSearchFault == "Server error while searching ingredients."
MsgCreateFault == "Server error while creating ingredient."
MsgValidationFailed == "Validation failed."
MsgDuplicate ==
    "Duplicate field value entered for 'name'. Please use a unique value."
MsgCreated == "Ingredient created successfully."

\* res.status(code).json({success: false, message})
Fail(q, code, msg) ==
    [q EXCEPT !.pc = "done",
              !.response = [NoResponse EXCEPT !.status = code, !.message = msg]]

\* mutant of RespondProcess: llmQueryTerms reports every term of the request
RespondProcessAllTerms(q) ==
    [q EXCEPT !.pc = "done",
              !.response = [NoResponse EXCEPT
                               !.status = 200, !.success = TRUE,
                               !.data = q.dbData,
                               !.llmAnalysis = q.llmData,
                               !.llmQueryTerms = JoinComma(q.normalizedTerms)]]

\* res.status(200).json({success: true, data: {dbData, llmAnalysis, llmQueryTerms}})
RespondProcess(q) ==
    [q EXCEPT !.pc = "done",
              !.response = [NoResponse EXCEPT
                               !.status = 200, !.success = TRUE,
                               !.data = q.dbData,
                               !.llmAnalysis = q.llmData,
                               !.llmQueryTerms = q.llmQueryTermsString]]

Cosmetic == <<"c", "o", "s", "m", "e", "t", "i", "c">>
Food == <<"f", "o", "o", "d">>

\* !termsString || typeof termsString !== "string" || termsString.trim() === ""
TermsMissing(terms) ==
    Falsy(terms) \/ terms.kind # "string" \/ Trim(terms.s) = <<>>

\* req.query.productType?.toLowerCase() throws on a value that is neither
\* undefined nor a string: it has no toLowerCase to call
ProductTypeThrows(pt) == pt.kind \notin {"absent", "string"}

\* !productType || !["cosmetic", "food"].includes(productType), after lowercasing
ProductTypeInvalid(pt) ==
    Falsy(pt) \/ ToLowerCase(pt.s) \notin {Cosmetic, Food}

\* mutant of StartProcess: the category is interpolated into the prompt
StartProcessByCategory(terms, pt) ==
    LET q == [IdleReq EXCEPT !.kind = "process"] IN
    IF ProductTypeThrows(pt) THEN Fail(q, 500, MsgProcessFault)
    ELSE IF TermsMissing(terms) THEN Fail(q, 400, MsgTermsRequired)
    ELSE IF ProductTypeInvalid(pt) THEN Fail(q, 400, MsgProductType)
    ELSE IF NormalizeTerms(terms.s) = <<>> THEN Fail(q, 400, MsgNoValidTerm)
    ELSE [q EXCEPT !.pc = "probe",
                   !.normalizedTerms = NormalizeTerms(terms.s),
                   !.prompt = ToLowerCase(pt.s),
                   !.reads = 1]

\* getIngredientsAndCheckMissing, from the request to the existence probe
StartProcess(terms, pt) ==
    LET q == [IdleReq EXCEPT !.kind = "process"] IN
    IF ProductTypeThrows(pt) THEN Fail(q, 500, MsgProcessFault)
    ELSE IF TermsMissing(terms) THEN Fail(q, 400, MsgTermsRequired)
    ELSE IF ProductTypeInvalid(pt) THEN Fail(q, 400, MsgProductType)
    ELSE IF NormalizeTerms(terms.s) = <<>> THEN Fail(q, 400, MsgNoValidTerm)
    ELSE [q EXCEPT !.pc = "probe",
                   !.normalizedTerms = NormalizeTerms(terms.s),
                   !.reads = 1]

\* searchIngredients, from the request to the store read
StartSearch(terms) ==
    LET q == [IdleReq EXCEPT !.kind = "search"] IN
    IF TermsMissing(terms) THEN Fail(q, 400, MsgSearchTermsRequired)
    ELSE IF NormalizeTerms(terms.s) = <<>> THEN Fail(q, 400, MsgNoValidTerm)
    ELSE [q EXCEPT !.pc = "find",
                   !.normalizedTerms = NormalizeTerms(terms.s),
                   !.reads = 1]

\* createIngredient, from the request to save()
StartCreate(body) ==
    [IdleReq EXCEPT !.kind = "create", !.body = body, !.pc = "save",
                    !.writes = 1]

\* mutant of FoundDbIdentifiers: the aliases are not added to the set
FoundDbNames(found) == {found[i].name : i \in 1..Len(found)}

\* the partition of the distinct terms by membership in foundDbIdentifiers
FoundDbIdentifiers(found) ==
    UNION {{found[i].name} \cup Range(found[i].aliases) : i \in 1..Len(found)}

TermsInDB(terms, found) ==
    SelectSeq(Distinct(terms), LAMBDA term : term \in FoundDbIdentifiers(found))

\* mutant of TermsNotInDB: the loop runs over normalizedTerms, not over the Set
TermsNotInDBNoSet(terms, found) ==
    SelectSeq(terms, LAMBDA term : term \notin FoundDbIdentifiers(found))

TermsNotInDB(terms, found) ==
    SelectSeq(Distinct(terms), LAMBDA term : term \notin FoundDbIdentifiers(found))

\* mutant of CallOrRespond: the Knowledge Model is called whatever the
\* unknown list holds
CallOrRespondAlways(q) ==
    [q EXCEPT !.pc = "llm",
              !.llmQueryTermsString = JoinComma(q.termsNotInDB),
              !.prompt = JoinComma(q.termsNotInDB),
              !.llmCalls = @ + 1]

\* from the end of the hydrate step to the Knowledge Model call or the response
CallOrRespond(q) ==
    IF Len(q.termsNotInDB) > 0
    THEN [q EXCEPT !.pc = "llm",
                   !.llmQueryTermsString = JoinComma(q.termsNotInDB),
                   !.prompt = JoinComma(q.termsNotInDB),
                   !.llmCalls = @ + 1]
    ELSE RespondProcess(q)

\* mutant of Partition: the Knowledge Model is called for the unknown terms
\* before the known ones are hydrated
PartitionCallFirst(q, found) ==
    LET p == [q EXCEPT !.termsInDB = TermsInDB(q.normalizedTerms, found),
                       !.termsNotInDB = TermsNotInDB(q.normalizedTerms, found)]
    IN  IF Len(p.termsNotInDB) > 0 THEN CallOrRespond(p)
        ELSE IF Len(p.termsInDB) > 0
        THEN [p EXCEPT !.pc = "hydrate", !.reads = @ + 1]
        ELSE CallOrRespond(p)

\* from the existence probe's result to the hydrate read, the call or the response
Partition(q, found) ==
    LET p == [q EXCEPT !.termsInDB = TermsInDB(q.normalizedTerms, found),
                       !.termsNotInDB = TermsNotInDB(q.normalizedTerms, found)]
    IN  IF Len(p.termsInDB) > 0
        THEN [p EXCEPT !.pc = "hydrate", !.reads = @ + 1]
        ELSE CallOrRespond(p)

\* the persist loop from item i on, to its next await, its end or its escape
\* into the catch block of JSON.parse
PersistFrom(q, i) ==
    LET run == RunItems(q.llmData.value.items, i, q.itemLog)
        p == [q EXCEPT !.itemLog = run.log, !.idx = run.idx]
    IN  IF run.stop = "await"
        THEN [p EXCEPT !.pc = "upsert", !.writes = @ + 1]
        ELSE IF run.stop = "escape"
        THEN RespondProcess(
                 [p EXCEPT !.llmData =
                      LlmParseError(q.rawText, ExtractJson(q.rawText))])
        ELSE RespondProcess(p)

\* from the Knowledge Model's text to the first upsert or the response
ParseAndPersist(q, rawText) ==
    LET jsonString == ExtractJson(rawText) IN
    IF ~Parses(jsonString)
    THEN RespondProcess(
             [q EXCEPT !.rawText = rawText, !.llmOutcome = "text",
                       !.llmData = LlmParseError(rawText, jsonString)])
    ELSE LET p == [q EXCEPT !.rawText = rawText, !.llmOutcome = "text",
                            !.llmData = LlmValue(jsonString.doc)]
         IN  IF p.llmData.t = "value" /\ p.llmData.value.ingredients = "array"
             THEN PersistFrom(p, 1)
             ELSE RespondProcess(p)

\* mutant of OnReadFailure: the rejected read is taken for an empty result and
\* the handler goes on
OnReadFailureIgnored(q) == CallOrRespond([q EXCEPT !.readFailed = TRUE])

\* findByTerms rejected: the await throws into the handler's outer catch
OnReadFailure(q) ==
    Fail([q EXCEPT !.readFailed = TRUE], 500, MsgProcessFault)

\* mutant of OnCallFailure: the error is left to the handler's outer catch
OnCallFailureRethrow(q, cause) ==
    Fail([q EXCEPT !.llmOutcome = "failed", !.llmCause = cause], 500,
         MsgProcessFault)

\* generateContent or response.text() threw: the catch block of the call
OnCallFailure(q, cause) ==
    RespondProcess([q EXCEPT !.llmOutcome = "failed", !.llmCause = cause,
                             !.llmData = LlmCallError(cause)])

\* the messages of the validators that reject a cast document
ValidationMessages(d) ==
    {m \in {"Ingredient name is required.", "Display name is required.",
            "Health rating must be at least 1.",
            "Health rating must be no more than 5.",
            "source is not a valid enum value."} :
        \/ m = "Ingredient name is required."
           /\ ~(d.name.kind = "string" /\ d.name.s # <<>>)
        \/ m = "Display name is required."
           /\ ~(d.display_name.kind = "string" /\ d.display_name.s # <<>>)
        \/ m = "Health rating must be at least 1."
           /\ \E h \in d.health_rating : h < HealthRatingMin
        \/ m = "Health rating must be no more than 5."
           /\ \E h \in d.health_rating : h > HealthRatingMax
        \/ m = "source is not a valid enum value."
           /\ d.source \notin SourceEnum}

(***************************************************************************)
(* Inputs.                                                                 *)
(***************************************************************************)
\* raw tokens: a plain term; a term that needs lowercasing, bracket stripping
\* and trimming; a token that is only whitespace
RawTokens == {<<"a">>, <<" ", "(", "B", ")">>, <<" ">>}

\* the "terms" parameter: missing, repeated (an array), or up to MaxTokens raw
\* tokens joined by commas (no token gives the empty string)
TermsInputs ==
    {JsAbsent, JsArray}
    \cup {JsString(JoinComma(ts)) :
             ts \in UNION {[1..k -> RawTokens] : k \in 0..MaxTokens}}

ProductTypeInputs ==
    {JsAbsent, JsArray, JsString(Food),
     JsString(<<"C", "o", "s", "m", "e", "t", "i", "c">>),
     JsString(<<"d", "r", "u", "g">>)}

\* items the Knowledge Model may return: null, no name, a name that is no
\* string, a well-formed item, an item with an alias and a name to normalize,
\* an item whose health_rating is out of range
ItemPool ==
    {NullItem,
     ObjectItem(JsAbsent, <<>>, {}),
     ObjectItem(JsNumber, <<>>, {}),
     ObjectItem(JsString(<<"a">>), <<>>, {3}),
     ObjectItem(JsString(<<" ", "B">>), <<<<"A">>>>, {}),
     ObjectItem(JsString(<<"a">>), <<>>, {9})}

DocInputs ==
    {GarbageDoc, NullDoc, ScalarDoc, EmptyObjectDoc, ScalarIngredientsDoc}
    \cup {ArrayDoc(items) :
             items \in UNION {[1..k -> ItemPool] : k \in 0..MaxItems}}

TextInputs == [fenced : BOOLEAN, doc : DocInputs]

Causes == {"429 Too Many Requests"}

\* bodies of a direct create
BodyInputs ==
    {NoBody,
     [NoBody EXCEPT !.name = JsString(<<"A">>), !.display_name = JsString(<<"A">>),
                    !.source = "Curated"],
     [NoBody EXCEPT !.name = JsString(<<"b">>), !.display_name = JsString(<<"B">>),
                    !.aliases = <<<<"a">>>>, !.health_rating = {6}],
     [NoBody EXCEPT !.name = JsString(<<"b">>), !.display_name = JsString(<<"B">>),
                    !.aliases = <<<<"a">>>>, !.health_rating = {2}]}

Messages ==
    {[NoMessage EXCEPT !.kind = "process", !.terms = t, !.productType = pt] :
        t \in TermsInputs, pt \in ProductTypeInputs}
    \cup {[NoMessage EXCEPT !.kind = "search", !.terms = t] : t \in TermsInputs}
    \cup {[NoMessage EXCEPT !.kind = "create", !.body = b] : b \in BodyInputs}

(***************************************************************************)
(* State.                                                                  *)
(***************************************************************************)
\* no direct call: the functions run inside the handlers only
NoCall ==
    [fn |-> "none", done |-> FALSE, termsString |-> <<>>,
     termsArray |-> [kind |-> "absent", items |-> <<>>],
     normalizedTerms |-> <<>>, queried |-> FALSE, docs |-> <<>>]

Init ==
    /\ store = <<>>
    /\ clock = 0
    /\ inbox = [r \in Requests |-> NoMessage]
    /\ req = [r \in Requests |-> IdleReq]
    /\ call = NoCall

\* the wall clock advances
Tick ==
    /\ clock < MaxClock
    /\ clock' = clock + 1
    /\ UNCHANGED <<store, inbox, req, call>>

\* a request arrives, one of msgs
Arrive(r, msgs) ==
    /\ inbox[r].kind = "none"
    /\ req[r].pc = "idle"
    /\ \E m \in msgs : inbox' = [inbox EXCEPT ![r] = m]
    /\ UNCHANGED <<store, clock, req, call>>

\* the router hands the request to its handler, which runs to its first await
\* or to its response
Handle(r) ==
    /\ inbox[r].kind # "none"
    /\ req[r].pc = "idle"
    /\ req' = [req EXCEPT ![r] =
          IF inbox[r].kind = "process"
          THEN StartProcess(inbox[r].terms, inbox[r].productType)
          ELSE IF inbox[r].kind = "search" THEN StartSearch(inbox[r].terms)
          ELSE StartCreate(inbox[r].body)]
    /\ inbox' = [inbox EXCEPT ![r] = NoMessage]
    /\ UNCHANGED <<store, clock, call>>

(***************************************************************************)
(* GET /api/ingredients/process-list                                       *)
(***************************************************************************)
\* the existence probe completes: a storage fault, or the projected records
ProbeReturn(r) ==
    /\ req[r].pc = "probe"
    /\ \/ req' = [req EXCEPT ![r] = OnReadFailure(@)]
       \/ req' = [req EXCEPT ![r] =
              Partition(@, SelectNameAliases(FindByTerms(store, @.normalizedTerms)))]
    /\ UNCHANGED <<store, clock, inbox, call>>

\* the hydrate read completes: a storage fault, or the full records
HydrateReturn(r) ==
    /\ req[r].pc = "hydrate"
    /\ \/ req' = [req EXCEPT ![r] = OnReadFailure(@)]
       \/ LET found == FindByTerms(store, req[r].termsInDB)
          IN  req' = [req EXCEPT ![r] =
                 CallOrRespond([@ EXCEPT !.dbData = found, !.hydrateRead = found])]
    /\ UNCHANGED <<store, clock, inbox, call>>

\* generateContent completes: the call fails, or a text comes back, one of texts
LlmReturn(r, texts) ==
    /\ req[r].pc = "llm"
    /\ \/ \E cause \in Causes :
             req' = [req EXCEPT ![r] = OnCallFailure(@, cause)]
       \/ \E rawText \in texts :
             req' = [req EXCEPT ![r] = ParseAndPersist(@, rawText)]
    /\ UNCHANGED <<store, clock, inbox, call>>

\* findOneAndUpdate completes for item idx: the update's validators reject
\* it, the store applies it, or the store fails (a fault, or the duplicate-key
\* error of an insert that lost a race); the loop then goes on
UpsertReturn(r) ==
    /\ req[r].pc = "upsert"
    /\ LET q == req[r]
           d == CastDoc(NewIngredientData(q.llmData.value.items[q.idx]))
           next(outcome) == PersistFrom([q EXCEPT !.itemLog = Append(@, outcome)],
                                        q.idx + 1)
       IN  IF ~ValidDoc(d)
           THEN /\ req' = [req EXCEPT ![r] = next("ValidationError")]
                /\ store' = store
           ELSE \/ /\ store' = UpsertIfAbsent(store, d, clock)
                   /\ req' = [req EXCEPT ![r] = next("ok")]
                \/ /\ store' = store
                   /\ req' = [req EXCEPT ![r] = next("StorageError")]
                \/ /\ NameExists(store, d.name.s)
                   /\ store' = store
                   /\ req' = [req EXCEPT ![r] = next("DuplicateKey")]
    /\ UNCHANGED <<clock, inbox, call>>

(***************************************************************************)
(* GET /api/ingredients/search                                             *)
(***************************************************************************)
\* the store read completes: a storage fault, or the records found
FindReturn(r) ==
    /\ req[r].pc = "find"
    /\ \/ req' = [req EXCEPT ![r] = Fail(@, 500, MsgSearchFault)]
       \/ req' = [req EXCEPT ![r] =
              [@ EXCEPT !.pc = "done",
                        !.response = [NoResponse EXCEPT
                            !.status = 200, !.success = TRUE,
                            !.data = FindByTerms(store, req[r].normalizedTerms)]]]
    /\ UNCHANGED <<store, clock, inbox, call>>

(***************************************************************************)
(* POST /api/ingredients                                                   *)
(***************************************************************************)
\* save() completes: the schema rejects the document, the unique index
\* rejects its name, the store fails, or the document is inserted
SaveReturn(r) ==
    /\ req[r].pc = "save"
    /\ LET d == CastDoc(req[r].body) IN
       IF ~ValidDoc(d)
       THEN /\ req' = [req EXCEPT ![r] =
                  [@ EXCEPT !.pc = "done",
                            !.response = [NoResponse EXCEPT
                                !.status = 400,
                                !.message = MsgValidationFailed,
                                !.errors = ValidationMessages(d)]]]
            /\ store' = store
       ELSE \/ /\ NameExists(store, d.name.s)
               /\ req' = [req EXCEPT ![r] = Fail(@, 400, MsgDuplicate)]
               /\ store' = store
            \/ /\ req' = [req EXCEPT ![r] = Fail(@, 500, MsgCreateFault)]
               /\ store' = store
            \/ /\ ~NameExists(store, d.name.s)
               /\ store' = Append(store, StoredDoc(d, clock))
               /\ req' = [req EXCEPT ![r] =
                     [@ EXCEPT !.pc = "done",
                               !.response = [NoResponse EXCEPT
                                   !.status = 201, !.success = TRUE,
                                   !.message = MsgCreated,
                                   !.data = <<StoredDoc(d, clock)>>]]]
    /\ UNCHANGED <<clock, inbox, call>>

\* the response has been delivered; the slot is free for another request
Finish(r) ==
    /\ req[r].pc = "done"
    /\ req' = [req EXCEPT ![r] = IdleReq]
    /\ UNCHANGED <<store, clock, inbox, call>>

\* a step of request r, whose message is one of msgs and whose Knowledge
\* Model answers one of texts
Step(r, msgs, texts) ==
    \/ Arrive(r, msgs)
    \/ Handle(r)
    \/ ProbeReturn(r)
    \/ HydrateReturn(r)
    \/ LlmReturn(r, texts)
    \/ UpsertReturn(r)
    \/ FindReturn(r)
    \/ SaveReturn(r)
    \/ Finish(r)

(***************************************************************************)
(* Spec: requests served one at a time, over every message and every       *)
(* answer of the Knowledge Model within the bounds.                        *)
(***************************************************************************)
Next ==
    \/ Tick
    \/ Step(1, Messages, TextInputs)

Spec == Init /\ [][Next]_vars

(***************************************************************************)
(* SpecConcurrent: the requests of Requests in flight together, their      *)
(* steps interleaved at every await, over the messages and answers that    *)
(* make them meet on the same names.                                       *)
(***************************************************************************)
ConcurrentMessages ==
    {[NoMessage EXCEPT !.kind = "process", !.terms = JsString(ts),
                       !.productType = JsString(Food)] :
        ts \in {<<"a">>, <<"a", ",", " ", "(", "B", ")">>}}
    \cup {[NoMessage EXCEPT !.kind = "search", !.terms = JsString(<<"a">>)]}
    \cup {[NoMessage EXCEPT !.kind = "create", !.body = b] :
             b \in {b \in BodyInputs : b.name = JsString(<<"A">>)}}

ConcurrentTexts ==
    {[fenced |-> FALSE, doc |-> GarbageDoc]}
    \cup {[fenced |-> FALSE, doc |-> ArrayDoc(items)] :
             items \in {<<ObjectItem(JsString(<<"a">>), <<>>, {3})>>,
                        <<ObjectItem(JsString(<<" ", "B">>), <<<<"A">>>>, {}),
                          ObjectItem(JsString(<<"a">>), <<>>, {3})>>}}

NextConcurrent ==
    \/ Tick
    \/ \E r \in Requests : Step(r, ConcurrentMessages, ConcurrentTexts)

SpecConcurrent == Init /\ [][NextConcurrent]_vars

(***************************************************************************)
(* SpecBracketed: requests served one at a time, with a Knowledge Model    *)
(* that writes a name or an alias with brackets, as in "Aqua (Water)".     *)
(***************************************************************************)
BracketedTexts ==
    {[fenced |-> FALSE, doc |-> GarbageDoc]}
    \cup {[fenced |-> TRUE, doc |-> ArrayDoc(<<item>>)] :
             item \in {ObjectItem(JsString(<<"a">>), <<>>, {3}),
                       ObjectItem(JsString(<<"(", "C", ")">>), <<>>, {}),
                       ObjectItem(JsString(<<"a">>), <<<<"[", "B", "]">>>>, {9}),
                       ObjectItem(JsString(<<"B">>), <<<<"[", "A", "]">>>>, {})}}

NextBracketed ==
    \/ Tick
    \/ Step(1, ConcurrentMessages, BracketedTexts)

SpecBracketed == Init /\ [][NextBracketed]_vars

(***************************************************************************)
(* SpecCategory: two requests in flight, the first always sent with the    *)
(* category "food" and the second with "Cosmetic", over the same terms and *)
(* the same answers.                                                       *)
(***************************************************************************)
CategoryMessages(c) ==
    {IF m.kind = "process" THEN [m EXCEPT !.productType = JsString(c)] ELSE m :
        m \in ConcurrentMessages}

NextCategory ==
    \/ Tick
    \/ Step(1, CategoryMessages(Food), ConcurrentTexts)
    \/ Step(2, CategoryMessages(<<"C", "o", "s", "m", "e", "t", "i", "c">>),
            ConcurrentTexts)

SpecCategory == Init /\ [][NextCategory]_vars

(***************************************************************************)
(* SpecCalls: the normalizer called on its own, over every string of up to *)
(* MaxChars characters of Alphabet and on the example of its contract; and *)
(* findByTerms called on its own, over the stores of up to MaxRecords      *)
(* records and every argument of up to MaxTerms elements.                  *)
(***************************************************************************)
Alphabet == {"a", "B", "(", "]", " ", ","}

WaterGlycerin ==
    <<"W", "a", "t", "e", "r", ",", " ",
      "(", "G", "l", "y", "c", "e", "r", "i", "n", ")">>

NormalizerInputs ==
    UNION {[1..k -> Alphabet] : k \in 0..MaxChars}
    \cup {WaterGlycerin, <<"\t", "a", "\t">>}

NormalizeCalls ==
    {[NoCall EXCEPT !.fn = "normalize", !.termsString = str] :
        str \in NormalizerInputs}

\* the records the handlers can store: a valid item of a Knowledge Model
\* answer, or a valid body of a direct create
StoreRecords ==
    {StoredDoc(CastDoc(NewIngredientData(item)), 0) :
        item \in {it \in ItemPool :
                     /\ it.kind = "object"
                     /\ it.ingredient_name.kind = "string"
                     /\ ValidDoc(CastDoc(NewIngredientData(it)))}}
    \cup {StoredDoc(CastDoc(b), 0) : b \in {x \in BodyInputs : ValidDoc(CastDoc(x))}}

\* the stores of up to MaxRecords records that the unique index on name allows
StoreInputs ==
    {st \in UNION {[1..k -> StoreRecords] : k \in 0..MaxRecords} :
        \A i, j \in 1..Len(st) : i # j => st[i].name # st[j].name}

TermPool ==
    {JsString(<<"a">>), JsString(<<"b">>), JsString(<<"c">>), JsString(<<>>),
     JsNumber}

TermsArrayInputs ==
    {[kind |-> "absent", items |-> <<>>], [kind |-> "string", items |-> <<>>]}
    \cup {[kind |-> "array", items |-> ts] :
             ts \in UNION {[1..k -> TermPool] : k \in 0..MaxTerms}}

FindCalls ==
    {[NoCall EXCEPT !.fn = "findByTerms", !.termsArray = ta] :
        ta \in TermsArrayInputs}

InitCalls ==
    /\ clock = 0
    /\ inbox = [r \in Requests |-> NoMessage]
    /\ req = [r \in Requests |-> IdleReq]
    /\ \/ store = <<>> /\ call \in NormalizeCalls
       \/ store \in StoreInputs /\ call \in FindCalls

\* termsString.split(",").map(...).filter(...) on the string of the call
Normalize ==
    /\ call.fn = "normalize"
    /\ ~call.done
    /\ call' = [call EXCEPT !.done = TRUE,
                            !.normalizedTerms = NormalizeTerms(call.termsString)]
    /\ UNCHANGED <<store, clock, inbox, req>>

\* Ingredient.findByTerms(termsArray) on the store of the call
CallFindByTerms ==
    /\ call.fn = "findByTerms"
    /\ ~call.done
    /\ LET res == FindByTermsAny(store, call.termsArray)
       IN  call' = [call EXCEPT !.done = TRUE, !.queried = res.queried,
                               !.docs = res.docs]
    /\ UNCHANGED <<store, clock, inbox, req>>

NextCalls ==
    \/ Normalize
    \/ CallFindByTerms

SpecCalls == InitCalls /\ [][NextCalls]_vars

(***************************************************************************)
(* Properties.                                                             *)
(***************************************************************************)
\* a process-list request that has answered
Answered(r) == req[r].kind = "process" /\ req[r].pc = "done"

\* a process-list request past its partition step
Partitioned(r) ==
    /\ req[r].kind = "process"
    /\ \/ req[r].pc \in {"hydrate", "llm", "upsert"}
       \/ req[r].pc = "done" /\ req[r].response.status = 200

\* the Knowledge Model answered and the extracted string parsed
ParsedOk(r) ==
    req[r].llmOutcome = "text" /\ Parses(ExtractJson(req[r].rawText))

\* the step is one of request r
StepOf(r) == req'[r] # req[r]

\* C1: in every reachable state of concurrent process-list, search and create
\* requests no two stored records share a name, and a process-list request
\* that went through its persist loop answers with success
C1_UniqueNames ==
    /\ \A i, j \in 1..Len(store) : i # j => store[i].name # store[j].name
    /\ \A r \in Requests :
          Answered(r) /\ req[r].writes > 0
          => req[r].response.status = 200 /\ req[r].response.success

\* C1, its case: two requests in flight together both classified "a" as
\* unknown, both upserted an item named "a" and answered with success, and
\* one record named "a" is stored
C1_Witness ==
    /\ \A r \in Requests :
          /\ Answered(r)
          /\ <<"a">> \in Range(req[r].termsNotInDB)
          /\ req[r].itemLog = <<"ok">>
          /\ req[r].response.success
    /\ Cardinality({i \in 1..Len(store) : store[i].name = <<"a">>}) = 1

\* C2, as claimed: no step of a process-list request deletes a stored record
\* or changes any field of one; an upsert of a name already stored leaves the
\* store as it was
C2_PipelineNeverMutates ==
    [][\A r \in Requests :
          req[r].kind = "process" /\ StepOf(r)
          => /\ Len(store') >= Len(store)
             /\ \A i \in 1..Len(store) : store'[i] = store[i]]_vars

\* C3: the known list and the unknown list are disjoint, together they hold
\* exactly the distinct normalized terms, and each distinct term once
C3_PartitionComplete ==
    \A r \in Requests :
       Partitioned(r)
       => LET known == req[r].termsInDB
              unknown == req[r].termsNotInDB
              T == Range(req[r].normalizedTerms)
          IN  /\ Range(known) \cap Range(unknown) = {}
              /\ Range(known) \cup Range(unknown) = T
              /\ Len(known) + Len(unknown) = Cardinality(T)

\* C3, its case: a request partitioned into a known and an unknown term
C3_Witness ==
    \E r \in Requests :
       /\ Partitioned(r)
       /\ req[r].termsInDB # <<>>
       /\ req[r].termsNotInDB # <<>>

\* C4: when the Knowledge Model call fails, the request answers with success,
\* dbData is what the hydrate read returned, the enrichment field is the
\* tagged error with the cause, and the request issued no store write
C4_CallFailureIsolated ==
    \A r \in Requests :
       req[r].llmOutcome = "failed"
       => /\ req[r].pc = "done"
          /\ req[r].response.status = 200 /\ req[r].response.success
          /\ req[r].response.data = req[r].hydrateRead
          /\ req[r].response.llmAnalysis.t = "error"
          /\ req[r].response.llmAnalysis.error = "Failed to get analysis from LLM."
          /\ req[r].response.llmAnalysis.details = req[r].llmCause
          /\ req[r].writes = 0

\* C4, its case: the call failed in a request that had hydrated known records
C4_Witness ==
    \E r \in Requests :
       /\ req[r].llmOutcome = "failed"
       /\ req[r].hydrateRead # <<>>
       /\ req[r].response.data # <<>>

\* C5, as claimed: once the ingredients array has parsed, every item is taken
\* up whatever its shape, and the request answers with success and the parsed
\* payload as its enrichment field
C5_PersistBestEffort ==
    \A r \in Requests :
       /\ Answered(r)
       /\ ParsedOk(r)
       /\ ExtractJson(req[r].rawText).doc.ingredients = "array"
       => /\ req[r].response.status = 200 /\ req[r].response.success
          /\ req[r].response.llmAnalysis = LlmValue(ExtractJson(req[r].rawText).doc)
          /\ Len(req[r].itemLog) = Len(ExtractJson(req[r].rawText).doc.items)

\* C6, as claimed: the enrichment field is the parse-failure error, with the
\* raw text and the attempted string, exactly when the Knowledge Model
\* answered and the extracted string did not parse
C6_ParseFailureExactly ==
    \A r \in Requests :
       Answered(r) /\ req[r].response.status = 200
       => LET a == req[r].response.llmAnalysis
              failed == req[r].llmOutcome = "text" /\ ~ParsedOk(r)
          IN  /\ (a.t = "error" /\ a.error = "Failed to parse LLM response.")
                 <=> failed
              /\ failed => /\ a.raw_response = req[r].rawText
                           /\ a.attempted_parse_string = ExtractJson(req[r].rawText)

\* C7: a request calls the Knowledge Model at most once: once when the unknown
\* list is non-empty, with every unknown term and no known term, never when
\* it is empty, and never again after a failed call
C7_OneCall ==
    \A r \in Requests :
       /\ req[r].llmCalls <= 1
       /\ req[r].kind # "process" => req[r].llmCalls = 0
       /\ Partitioned(r) /\ req[r].pc # "hydrate"
          => req[r].llmCalls = (IF req[r].termsNotInDB # <<>> THEN 1 ELSE 0)
       /\ req[r].llmCalls = 1
          => /\ SplitComma(req[r].prompt) = req[r].termsNotInDB
             /\ Range(SplitComma(req[r].prompt)) \cap Range(req[r].termsInDB) = {}
       /\ req[r].llmOutcome = "failed" => req[r].pc = "done"

\* C7, its case: a request with a known and an unknown term has answered
\* after its one call
C7_Witness ==
    \E r \in Requests :
       /\ Answered(r)
       /\ req[r].llmCalls = 1
       /\ req[r].termsInDB # <<>>
       /\ req[r].termsNotInDB # <<>>

\* C8: a successful process-list response carries dbData, the result of the
\* hydrate read (empty, with no second read, when no term is known);
\* llmAnalysis, the enrichment result (null when no term is unknown); and
\* llmQueryTerms, the unknown terms joined by commas in order of first
\* occurrence, without duplicates
C8_ResponseFields ==
    \A r \in Requests :
       Answered(r) /\ req[r].response.status = 200
       => LET q == req[r]
              unknown == SelectSeq(Distinct(q.normalizedTerms),
                                   LAMBDA term : term \notin Range(q.termsInDB))
          IN  /\ q.response.data = q.hydrateRead
              /\ q.termsInDB = <<>> => q.response.data = <<>> /\ q.reads = 1
              /\ q.termsInDB # <<>> => q.reads = 2
              /\ q.response.llmAnalysis = q.llmData
              /\ unknown = <<>> => /\ q.response.llmAnalysis = LlmNull
                                   /\ q.response.llmQueryTerms = <<>>
              /\ q.response.llmQueryTerms = JoinComma(unknown)

\* C8, its case: a response whose llmQueryTerms joins two unknown terms
C8_Witness ==
    \E r \in Requests :
       /\ Answered(r)
       /\ req[r].response.status = 200
       /\ Len(req[r].termsNotInDB) = 2
       /\ req[r].response.llmQueryTerms = <<"a", ",", "b">>

\* the "terms" parameter is absent, no string, only whitespace, or normalizes
\* to no token
TermsUnusable(terms) ==
    \/ terms.kind # "string"
    \/ \A i \in 1..Len(terms.s) : IsSpace(terms.s[i])
    \/ NormalizeTerms(terms.s) = <<>>

\* the handler answered in its first segment with a 400 and issued nothing
Rejected400(q) ==
    /\ q.pc = "done"
    /\ q.response.status = 400 /\ ~q.response.success
    /\ q.reads = 0 /\ q.writes = 0 /\ q.llmCalls = 0

\* C9, as claimed: a process-list or search request whose terms parameter is
\* unusable is answered with a 400 and issues no store read, no Knowledge
\* Model call and no store write
C9_BadTermsRejected ==
    [][\A r \in Requests :
          /\ inbox[r].kind \in {"process", "search"}
          /\ TermsUnusable(inbox[r].terms)
          /\ StepOf(r)
          => Rejected400(req'[r])]_vars

\* the category selector is absent, no string, or neither cosmetic nor food
\* after case folding
CategoryUnusable(pt) ==
    \/ pt.kind # "string"
    \/ ToLowerCase(pt.s) \notin {Cosmetic, Food}

\* C10, as claimed: a process-list request whose category selector is missing
\* or malformed is answered with a 400, whatever its terms, and issues no
\* store or Knowledge Model call
C10_BadCategoryRejected ==
    [][\A r \in Requests :
          /\ inbox[r].kind = "process"
          /\ CategoryUnusable(inbox[r].productType)
          /\ StepOf(r)
          => Rejected400(req'[r])]_vars

\* C11: when the existence probe or the hydrate read fails, the request is
\* answered with a failure envelope (a 500, success false), the Knowledge
\* Model is not called and the request writes nothing to the store
C11_ReadFailureAborts ==
    \A r \in Requests :
       req[r].readFailed
       => /\ req[r].pc = "done"
          /\ req[r].response.status = 500 /\ ~req[r].response.success
          /\ req[r].llmCalls = 0
          /\ req[r].writes = 0

\* C11, its case: the hydrate read failed in a request that had an unknown
\* term to send to the Knowledge Model
C11_Witness ==
    \E r \in Requests :
       /\ req[r].readFailed
       /\ req[r].reads = 2
       /\ req[r].termsNotInDB # <<>>

\* the characters of the elements of ts, one after the other
RECURSIVE Concat(_)
Concat(ts) == IF ts = <<>> THEN <<>> ELSE Head(ts) \o Concat(Tail(ts))

\* a character that is no comma, no bracket and no white space
Significant(c) == c # "," /\ ~IsBracket(c) /\ ~IsSpace(c)

\* the positions of str that hold the first significant character of a
\* comma-separated token
TokenStarts(str) ==
    {i \in 1..Len(str) :
        /\ Significant(str[i])
        /\ \A j \in 1..(i - 1) :
              (\A k \in j..(i - 1) : str[k] # ",") => ~Significant(str[j])}

\* C12: the normalizer's output holds, in input order, the comma-separated
\* tokens lowercased, without brackets and trimmed, the empty ones dropped: no
\* element is empty or holds an uppercase character, a bracket or a comma, none
\* starts or ends with white space, there is one element per token that has a
\* significant character, and the significant characters of the output are
\* those of the input, lowercased, in the same order
C12_NormalizerOutput ==
    call.fn = "normalize" /\ call.done
    => LET out == call.normalizedTerms
           str == call.termsString
       IN  /\ \A n \in 1..Len(out) :
                 /\ out[n] # <<>>
                 /\ \A i \in 1..Len(out[n]) :
                       /\ out[n][i] \notin Range(UpperCase)
                       /\ out[n][i] \notin {"(", ")", "[", "]", "{", "}", ","}
                 /\ out[n][1] \notin {" ", "\t"}
                 /\ out[n][Len(out[n])] \notin {" ", "\t"}
           /\ Len(out) = Cardinality(TokenStarts(str))
           /\ SelectSeq(Concat(out), Significant)
                 = SelectSeq([i \in 1..Len(str) |->
                                 IF str[i] = "B" THEN "b"
                                 ELSE IF str[i] = "W" THEN "w"
                                 ELSE IF str[i] = "G" THEN "g"
                                 ELSE str[i]], Significant)

\* C12, its case: "Water, (Glycerin)" has been normalized to water, glycerin
C12_Witness ==
    /\ call.fn = "normalize" /\ call.done
    /\ call.termsString = WaterGlycerin
    /\ call.normalizedTerms
          = << <<"w", "a", "t", "e", "r">>,
               <<"g", "l", "y", "c", "e", "r", "i", "n">> >>

\* the non-empty strings among the elements of an array argument
GivenTerms(termsArray) ==
    IF termsArray.kind # "array" THEN {}
    ELSE {t.s : t \in {x \in Range(termsArray.items) :
                           x.kind = "string" /\ x.s # <<>>}}

\* the positions of the stored records with their name or an alias in T
Matching(st, T) ==
    {i \in 1..Len(st) :
        st[i].name \in T \/ Range(st[i].aliases) \cap T # {}}

\* C13: findByTerms returns exactly the stored records whose name or one of
\* whose aliases is among the given terms, each once; an argument that is no
\* array, is empty or holds no non-empty string gives the empty list and no
\* query
C13_FindByTermsExact ==
    call.fn = "findByTerms" /\ call.done
    => LET T == GivenTerms(call.termsArray)
           hits == Matching(store, T)
       IN  /\ Range(call.docs) = {store[i] : i \in hits}
           /\ Len(call.docs) = Cardinality(hits)
           /\ T = {} => call.docs = <<>> /\ ~call.queried

\* C13, its case: a record returned through an alias alone
C13_Witness ==
    /\ call.fn = "findByTerms" /\ call.done
    /\ \E i \in 1..Len(call.docs) :
          /\ call.docs[i].name \notin GivenTerms(call.termsArray)
          /\ Range(call.docs[i].aliases) \cap GivenTerms(call.termsArray) # {}

\* the document satisfies the schema: a name and a display_name that are
\* non-empty strings, a health_rating absent or from 1 to 5, a source of the enum
Sound(d) ==
    /\ d.name.kind = "string" /\ Len(d.name.s) > 0
    /\ d.display_name.kind = "string" /\ Len(d.display_name.s) > 0
    /\ d.health_rating \subseteq 1..5
    /\ d.source \in SourceEnum

\* C14: a direct create ends in exactly one of four ways: the record is
\* stored and returned with a 201; a document that violates the schema gives a
\* 400 with the validators' messages; a name already stored gives the 400 of
\* the duplicate key; a storage fault gives a 500; the store is unchanged in
\* the last three
C14_CreateOutcomes ==
    [][\A r \in Requests :
          req[r].pc = "save" /\ StepOf(r)
          => LET d == CastDoc(req[r].body)
                 resp == req'[r].response
                 taken == \E i \in 1..Len(store) : store[i].name = d.name.s
             IN  /\ req'[r].pc = "done"
                 /\ \/ /\ resp.status = 201 /\ resp.success
                       /\ Sound(d) /\ ~taken
                       /\ Len(store') = Len(store) + 1
                       /\ SubSeq(store', 1, Len(store)) = store
                       /\ store'[Len(store')].name = d.name.s
                       /\ resp.data = <<store'[Len(store')]>>
                    \/ /\ resp.status = 400 /\ ~resp.success
                       /\ resp.message = MsgValidationFailed
                       /\ resp.errors # {}
                       /\ ~Sound(d)
                       /\ store' = store
                    \/ /\ resp.status = 400 /\ ~resp.success
                       /\ resp.message = MsgDuplicate
                       /\ Sound(d) /\ taken
                       /\ store' = store
                    \/ /\ resp.status = 500 /\ ~resp.success
                       /\ Sound(d)
                       /\ store' = store
                 /\ ~Sound(d) => resp.message = MsgValidationFailed]_vars

\* C14, its case: a create was refused for its duplicate name and the record
\* stored before it is still the only one of that name
C14_Witness ==
    \E r \in Requests :
       /\ req[r].kind = "create" /\ req[r].pc = "done"
       /\ req[r].response.status = 400
       /\ req[r].response.message = MsgDuplicate
       /\ Cardinality({i \in 1..Len(store) :
                          store[i].name = CastDoc(req[r].body).name.s}) = 1

\* C15: every stored record has a non-empty name and a non-empty
\* display_name, and its health_rating is absent or a value from 1 to 5
C15_StoredRecordsSound ==
    \A i \in 1..Len(store) :
       /\ Len(store[i].name) > 0
       /\ Len(store[i].display_name) > 0
       /\ \A h \in store[i].health_rating : 1 <= h /\ h <= 5

\* C15, its case: a Knowledge Model answer held an item with a health_rating
\* out of range and an item that was stored
C15_Witness ==
    \E r \in Requests :
       /\ Answered(r)
       /\ "ValidationError" \in Range(req[r].itemLog)
       /\ "ok" \in Range(req[r].itemLog)
       /\ store # <<>>

\* some record of st has term t as its name or among its aliases
Stored(st, t) ==
    \E i \in 1..Len(st) : st[i].name = t \/ t \in Range(st[i].aliases)

\* C16: when the existence probe returns, a normalized term is put in the
\* known list if and only if some stored record has it as its name or among
\* its aliases, and in the unknown list otherwise
C16_KnownIffStored ==
    [][\A r \in Requests :
          req[r].pc = "probe" /\ StepOf(r) /\ ~req'[r].readFailed
          => \A t \in Range(req[r].normalizedTerms) :
                /\ t \in Range(req'[r].termsInDB) <=> Stored(store, t)
                /\ t \in Range(req'[r].termsNotInDB) <=> ~Stored(store, t)]_vars

\* C16, its case: a request with a term known through an alias alone
C16_Witness ==
    \E r \in Requests :
       /\ Partitioned(r)
       /\ req[r].pc = "hydrate"
       /\ \E t \in Range(req[r].termsInDB) :
             /\ \A i \in 1..Len(store) : store[i].name # t
             /\ Stored(store, t)

\* C17, as claimed: when a term was unknown and the enrichment field of the
\* response is no tagged error, it is an object whose key ingredients holds an
\* array
C17_EnrichmentShape ==
    \A r \in Requests :
       /\ Answered(r)
       /\ req[r].response.status = 200
       /\ req[r].termsNotInDB # <<>>
       /\ req[r].response.llmAnalysis.t # "error"
       => /\ req[r].response.llmAnalysis.t = "value"
          /\ req[r].response.llmAnalysis.value.t = "object"
          /\ req[r].response.llmAnalysis.value.ingredients = "array"

\* C18: the steps of a process-list request follow one order: the probe, then
\* the hydrate read (when a term is known), then the Knowledge Model call,
\* then the upserts item after item, then the response, and nothing after the
\* response; an upsert is issued only once the answer has parsed, and the call
\* and the upserts only when a term is unknown
C18_LinearPipeline ==
    [][\A r \in Requests :
          StepOf(r) /\ (req[r].kind = "process" \/ req'[r].kind = "process")
          => LET q == req[r]
                 n == req'[r]
             IN  /\ n.pc = "probe" => q.pc = "idle" /\ n.reads = 1
                 /\ n.pc = "hydrate"
                    => q.pc = "probe" /\ n.reads = 2
                       /\ n.llmCalls = 0 /\ n.writes = 0
                 /\ n.pc = "llm"
                    => /\ q.pc \in {"probe", "hydrate"}
                       /\ q.llmCalls = 0 /\ n.llmCalls = 1 /\ n.writes = 0
                       /\ n.termsNotInDB # <<>>
                       /\ n.reads = (IF n.termsInDB # <<>> THEN 2 ELSE 1)
                 /\ n.pc = "upsert"
                    => /\ q.pc \in {"llm", "upsert"}
                       /\ n.llmCalls = 1
                       /\ n.llmOutcome = "text" /\ Parses(ExtractJson(n.rawText))
                       /\ n.termsNotInDB # <<>>
                       /\ n.idx > (IF q.pc = "upsert" THEN q.idx ELSE 0)
                       /\ n.writes = q.writes + 1
                 /\ n.pc = "done"
                    => /\ q.pc \in {"idle", "probe", "hydrate", "llm", "upsert"}
                       /\ n.reads = q.reads /\ n.writes = q.writes
                       /\ n.llmCalls = q.llmCalls
                 /\ q.pc = "done" => n.pc = "idle"
                 /\ n.llmCalls > 0 \/ n.writes > 0 => n.termsNotInDB # <<>>]_vars

\* C18, its case: a request went through the probe, the hydrate read, the
\* call and two upserts and has answered
C18_Witness ==
    \E r \in Requests :
       /\ Answered(r)
       /\ req[r].response.status = 200
       /\ req[r].reads = 2
       /\ req[r].llmCalls = 1
       /\ req[r].writes = 2

\* request r has answered after classifying t as unknown, with an answer that
\* parsed and held one item for each unknown term, named by that term, every
\* one of them upserted
Learned(r, t) ==
    LET q == req[r]
        items == ExtractJson(q.rawText).doc.items
    IN  /\ Answered(r) /\ q.response.status = 200
        /\ t \in Range(q.termsNotInDB)
        /\ Len(q.itemLog) = Len(q.termsNotInDB)
        /\ \A i \in 1..Len(q.itemLog) : q.itemLog[i] = "ok"
        /\ ParsedOk(r)
        /\ ExtractJson(q.rawText).doc.ingredients = "array"
        /\ Len(items) = Len(q.termsNotInDB)
        /\ \A u \in Range(q.termsNotInDB) :
              \E i \in 1..Len(items) :
                 /\ items[i].kind = "object"
                 /\ items[i].ingredient_name.kind = "string"
                 /\ Trim(ToLowerCase(items[i].ingredient_name.s)) = u

NormalizerValue(str) ==
    /\ str # <<>>
    /\ \A i \in 1..Len(str) :
          /\ str[i] \notin Range(UpperCase)
          /\ ~IsBracket(str[i])
          /\ str[i] # ","
    /\ ~IsSpace(str[1]) /\ ~IsSpace(str[Len(str)])

\* C20, as claimed: after every upsert of the pipeline, the name and the
\* aliases of the stored records are strings the normalizer can output
C20_PipelineWritesNormalized ==
    [][\A r \in Requests :
          req[r].pc = "upsert" /\ StepOf(r)
          => \A i \in 1..Len(store') :
                /\ NormalizerValue(store'[i].name)
                /\ \A k \in 1..Len(store'[i].aliases) :
                      NormalizerValue(store'[i].aliases[k])]_vars

\* the terms a response lists in llmQueryTerms
QueryTermsOf(resp) ==
    IF resp.llmQueryTerms = <<>> THEN {}
    ELSE Range(SplitComma(resp.llmQueryTerms))

\* C21, as claimed: in every success response of a process-list request, no
\* term listed in llmQueryTerms is the name or an alias of a record returned
\* in dbData, whatever other requests wrote between the existence probe and
\* the hydrate read
C21_QueryTermsNotInDbData ==
    \A r \in Requests :
       Answered(r) /\ req[r].response.status = 200
       => \A t \in QueryTermsOf(req[r].response) :
             \A i \in 1..Len(req[r].response.data) :
                /\ req[r].response.data[i].name # t
                /\ t \notin Range(req[r].response.data[i].aliases)

\* the request's query carries a valid category selector
ValidCategory(m) ==
    /\ m.kind = "process"
    /\ m.productType.kind = "string"
    /\ ToLowerCase(m.productType.s) \in {Cosmetic, Food}

\* C22: two process-list requests with the same terms against the same store
\* that differ only in a valid category (cosmetic or food) have the same
\* partition, send the same prompt and, given the same answer, persist the
\* same records and respond alike. Checked stage by stage on the request
\* sent with "food" and the one sent with "Cosmetic": the handler brings
\* either to the state the other category would have given, and leaves the
\* store alone; with the same unknown terms they send the same prompt; with the
\* same records read, the same prompt and the same answer they respond alike
\* and tried to persist the same items
C22_CategoryBlind ==
    [][/\ \A r \in Requests :
             ValidCategory(inbox[r]) /\ req[r].pc = "idle" /\ StepOf(r)
             => /\ \A c \in {Cosmetic, Food} :
                      req'[r] = StartProcess(inbox[r].terms, JsString(c))
                /\ store' = store
       /\ LET f == req'[1]
              c == req'[2]
          IN  /\ f.kind = "process" /\ c.kind = "process"
                 /\ f.llmCalls = 1 /\ c.llmCalls = 1
                 /\ f.termsNotInDB = c.termsNotInDB
                 => /\ f.prompt = c.prompt
                    /\ f.llmQueryTermsString = c.llmQueryTermsString
              /\ Answered(1)' /\ Answered(2)'
                 /\ f.response.status = 200 /\ c.response.status = 200
                 /\ f.dbData = c.dbData
                 /\ f.prompt = c.prompt
                 /\ f.llmOutcome = c.llmOutcome
                 /\ f.llmCause = c.llmCause
                 /\ f.rawText = c.rawText
                 => /\ f.response = c.response
                    /\ Len(f.itemLog) = Len(c.itemLog)]_vars

\* C22, its case: the request sent with "food" and the one sent with
\* "Cosmetic", both for the terms "a, (B)", made the same partition, sent the
\* same prompt, got the same answer, went through the persist loop and gave
\* the same response
C22_Witness ==
    /\ Answered(1) /\ Answered(2)
    /\ req[1].response.status = 200
    /\ Len(req[1].normalizedTerms) = 2
    /\ req[1].normalizedTerms = req[2].normalizedTerms
    /\ req[1].termsNotInDB = req[2].termsNotInDB
    /\ req[1].llmCalls = 1 /\ req[2].llmCalls = 1
    /\ req[1].prompt = req[2].prompt /\ req[1].prompt # <<>>
    /\ req[1].rawText = req[2].rawText
    /\ Len(req[1].itemLog) = 2 /\ Len(req[2].itemLog) = 2
    /\ req[1].response = req[2].response

====
